---------------------------- MODULE Spec2Model ----------------------------
(***************************************************************************)
(* Game Boy Printer serial-link packet engine (gbp_serial_io.cpp).         *)
(*                                                                         *)
(* The two file-scope structs gpb_sio and gpb_pktIO are the state; the     *)
(* edge handler gpb_serial_io_OnChange_ISR, the timeout handler, the reset *)
(* and the ring-buffer accessor are the operations.  The master (the Game  *)
(* Boy) and the foreground loop are the environment.                       *)
(***************************************************************************)
EXTENDS Integers, Sequences, FiniteSets, TLC

(***************************************************************************)
(* Bounds of the model                                                     *)
(***************************************************************************)
MaxPackets == 2      \* packets the master starts in one behaviour (Spec)
MaxNoise == 3        \* length of an arbitrary noise burst, in bits
MaxPayload == 2      \* payload bytes of a DATA packet of the menus
BuffSize == 3        \* capacity handed to gpb_serial_io_init
MaxSeqPackets == 6   \* packets of one behaviour of SpecSeq
MaxFillPackets == 7  \* packets of one behaviour of SpecFill
MaxEdgePackets == 2  \* packets of one behaviour of SpecEdge
MaxDataPackets == 2  \* packets of one behaviour of SpecData
MaxWidePackets == 2  \* packets of one behaviour of SpecWide
MaxStagePackets == 3 \* packets of one behaviour of SpecStage
MaxMaskPackets == 1  \* packets of one behaviour of SpecMask
MaxTwinPackets == 1  \* packets of one behaviour of SpecTwin
MaxTwinNoise == 1    \* noise bursts of one behaviour of SpecTwin
MaxRacePackets == 2  \* packets of one behaviour of SpecRace
MaxRaceResets == 1   \* resets the timeout handler starts in one behaviour of SpecRace
MaxPreempt == 1      \* edges that pre-empt one run of gpb_serial_io_reset in SpecRace

(***************************************************************************)
(* The environment's budgets, the build options of the engine and the      *)
(* foreground's position inside gpb_serial_io_reset                        *)
(***************************************************************************)
VARIABLE env

(***************************************************************************)
(* Protocol constants (gameboy_printer_protocol.h)                         *)
(***************************************************************************)
GBP_SYNC_WORD == 34867        \* 0x8833
GBP_SYNC_WORD_0 == 136        \* 0x88
GBP_SYNC_WORD_1 == 51         \* 0x33
GBP_DEVICE_ID == 129          \* 0x81
GBP_COMMAND_INIT == 1
GBP_COMMAND_PRINT == 2
GBP_COMMAND_DATA == 4
GBP_COMMAND_BREAK == 8
GBP_COMMAND_INQUIRY == 15

\* status byte bit positions
BIT_CHECKSUM_ERROR == 0
BIT_PRINTER_BUSY == 1
BIT_PRINT_BUFFER_FULL == 2
BIT_UNPROCESSED_DATA == 3
BIT_PACKET_ERROR == 4
BIT_PAPER_JAM == 5
BIT_OTHER_ERROR == 6
BIT_LOW_BATTERY == 7

(***************************************************************************)
(* Constants of gbp_serial_io.cpp                                          *)
(***************************************************************************)
GBP_PKT10_TIMEOUT_MS == 5000
GPB_BUSY_PACKET_COUNT == 3
DATA_PACKET_COUNT == 6
UNTRANS_PACKET_COUNT == 3
PRINT_SIZE_LIMIT == 4
\* a build option: commented out in the source (line 36), defined in the
\* builds that check the checksum and stage the payload
FEATURE_CHECKSUM_SUPPORTED == env.checksum

W16 == 65536
W8 == 256

(***************************************************************************)
(* C integer operators on unsigned values                                  *)
(***************************************************************************)
RECURSIVE BitAnd(_, _)
BitAnd(a, b) ==
    IF a = 0 \/ b = 0 THEN 0
    ELSE (a % 2) * (b % 2) + 2 * BitAnd(a \div 2, b \div 2)

RECURSIVE BitOr(_, _)
BitOr(a, b) ==
    IF a = 0 THEN b
    ELSE IF b = 0 THEN a
    ELSE (IF a % 2 = 1 \/ b % 2 = 1 THEN 1 ELSE 0) + 2 * BitOr(a \div 2, b \div 2)

Pow2(n) == IF n = 0 THEN 1 ELSE 2 ^ n

U16(x) == x % W16
U8(x) == x % W8

(***************************************************************************)
(* Status bit helpers (gameboy_printer_protocol.h macros)                  *)
(***************************************************************************)
gpb_status_bit_getbit(status, bit) == (status \div Pow2(bit)) % 2 = 1

gpb_status_bit_update(status, bit, val) ==
    IF val THEN BitOr(status, Pow2(bit))
    ELSE IF gpb_status_bit_getbit(status, bit) THEN status - Pow2(bit) ELSE status

ClearAllStatusBits(status) ==
    LET s7 == gpb_status_bit_update(status, BIT_LOW_BATTERY, FALSE)
        s6 == gpb_status_bit_update(s7, BIT_OTHER_ERROR, FALSE)
        s5 == gpb_status_bit_update(s6, BIT_PAPER_JAM, FALSE)
        s4 == gpb_status_bit_update(s5, BIT_PACKET_ERROR, FALSE)
        s3 == gpb_status_bit_update(s4, BIT_UNPROCESSED_DATA, FALSE)
        s2 == gpb_status_bit_update(s3, BIT_PRINT_BUFFER_FULL, FALSE)
        s1 == gpb_status_bit_update(s2, BIT_PRINTER_BUSY, FALSE)
    IN  gpb_status_bit_update(s1, BIT_CHECKSUM_ERROR, FALSE)

(***************************************************************************)
(* Payload ring buffer (gpb_cbuff.h): a bounded FIFO of committed bytes    *)
(* and the staged bytes behind them.                                       *)
(***************************************************************************)
gpb_cbuff_Init(size) == [capacity |-> size, data |-> <<>>, temp |-> <<>>]

gpb_cbuff_Count(cb) == Len(cb.data)

gpb_cbuff_Reset(cb) == [cb EXCEPT !.data = <<>>]

gpb_cbuff_ResetTemp(cb) == [cb EXCEPT !.temp = <<>>]

gpb_cbuff_AcceptTemp(cb) == [cb EXCEPT !.data = cb.data \o cb.temp, !.temp = <<>>]

\* a full ring drops the newest byte
gpb_cbuff_Enqueue(cb, b) ==
    IF Len(cb.data) + Len(cb.temp) >= cb.capacity THEN cb
    ELSE [cb EXCEPT !.data = Append(cb.data, b)]

\* staged when staging is built in, committed at once otherwise
gpb_cbuff_EnqueueTemp(cb, b) ==
    IF FEATURE_CHECKSUM_SUPPORTED
    THEN IF Len(cb.data) + Len(cb.temp) >= cb.capacity THEN cb
         ELSE [cb EXCEPT !.temp = Append(cb.temp, b)]
    ELSE gpb_cbuff_Enqueue(cb, b)

\* an empty ring leaves the caller's byte untouched
gpb_cbuff_Dequeue(cb, b) ==
    IF Len(cb.data) = 0 THEN [cb |-> cb, b |-> b]
    ELSE [cb |-> [cb EXCEPT !.data = Tail(cb.data)], b |-> Head(cb.data)]

(***************************************************************************)
(* Serial IO: gpb_sio_next, gpb_sio_getWord, gpb_sio_getByte               *)
(***************************************************************************)
GPB_SIO_MODE_RESET == "RESET"
GPB_SIO_MODE_8BITS == "8BITS"
GPB_SIO_MODE_16BITS_BIG_ENDIAN == "16BITS_BIG_ENDIAN"
GPB_SIO_MODE_16BITS_LITTLE_ENDIAN == "16BITS_LITTLE_ENDIAN"

SwapBytes(w) == BitOr((w \div 256) % 256, ((w * 256) % W16))

\* mutant: a byte transfer started with the mask of a word transfer
gpb_sio_next_WideByte(sio, mode, txdata) ==
    LET s0 == [sio EXCEPT !.rx_buff = 0, !.mode = mode]
    IN  CASE mode = GPB_SIO_MODE_RESET ->
               [s0 EXCEPT !.bitMaskMap = 0, !.SINOutputPinState = FALSE,
                          !.tx_buff = 65535, !.syncronised = FALSE]
          [] mode = GPB_SIO_MODE_8BITS ->
               [s0 EXCEPT !.bitMaskMap = Pow2(16 - 1), !.tx_buff = txdata]
          [] mode = GPB_SIO_MODE_16BITS_BIG_ENDIAN ->
               [s0 EXCEPT !.bitMaskMap = Pow2(16 - 1), !.tx_buff = txdata]
          [] mode = GPB_SIO_MODE_16BITS_LITTLE_ENDIAN ->
               [s0 EXCEPT !.bitMaskMap = Pow2(16 - 1), !.tx_buff = SwapBytes(txdata)]

gpb_sio_next(sio, mode, txdata) ==
    LET s0 == [sio EXCEPT !.rx_buff = 0, !.mode = mode]
    IN  CASE mode = GPB_SIO_MODE_RESET ->
               [s0 EXCEPT !.bitMaskMap = 0, !.SINOutputPinState = FALSE,
                          !.tx_buff = 65535, !.syncronised = FALSE]
          [] mode = GPB_SIO_MODE_8BITS ->
               [s0 EXCEPT !.bitMaskMap = Pow2(8 - 1), !.tx_buff = txdata]
          [] mode = GPB_SIO_MODE_16BITS_BIG_ENDIAN ->
               [s0 EXCEPT !.bitMaskMap = Pow2(16 - 1), !.tx_buff = txdata]
          [] mode = GPB_SIO_MODE_16BITS_LITTLE_ENDIAN ->
               [s0 EXCEPT !.bitMaskMap = Pow2(16 - 1), !.tx_buff = SwapBytes(txdata)]

gpb_sio_getWord(sio) ==
    CASE sio.mode = GPB_SIO_MODE_RESET -> 0
      [] sio.mode = GPB_SIO_MODE_8BITS -> BitAnd(sio.rx_buff, 255)
      [] sio.mode = GPB_SIO_MODE_16BITS_BIG_ENDIAN -> BitAnd(sio.rx_buff, 65535)
      [] sio.mode = GPB_SIO_MODE_16BITS_LITTLE_ENDIAN -> SwapBytes(sio.rx_buff)

gpb_sio_getByte(sio, bytePos) ==
    CASE bytePos = 0 -> BitAnd(sio.rx_buff, 255)
      [] bytePos = 1 -> BitAnd(sio.rx_buff \div 256, 255)
      [] OTHER -> 0


(***************************************************************************)
(* Packet parse states (gbp_pktIO_parse_state_t)                           *)
(***************************************************************************)
GBP_PKT10_PARSE_HEADER_COMMAND_AND_COMPRESSION == "HEADER_COMMAND_AND_COMPRESSION"
GBP_PKT10_PARSE_HEADER_DATA_LENGTH == "HEADER_DATA_LENGTH"
GBP_PKT10_PARSE_DATA_PAYLOAD == "DATA_PAYLOAD"
GBP_PKT10_PARSE_CHECKSUM == "CHECKSUM"
GBP_PKT10_PARSE_DUMMY == "DUMMY"

(***************************************************************************)
(* gpb_serial_io_reset and the state left by gpb_serial_io_init            *)
(***************************************************************************)
gpb_serial_io_reset(sio, pkt) ==
    [sio |-> [sio EXCEPT !.syncronised = FALSE, !.rx_buff = 0, !.tx_buff = 0,
                         !.SINOutputPinState = FALSE, !.bitMaskMap = 0],
     pkt |-> [pkt EXCEPT
                !.statusBuffer = ClearAllStatusBits(pkt.statusBuffer),
                !.dataBuffer =
                    IF FEATURE_CHECKSUM_SUPPORTED
                    THEN gpb_cbuff_ResetTemp(gpb_cbuff_Reset(pkt.dataBuffer))
                    ELSE gpb_cbuff_Reset(pkt.dataBuffer)]]

\* lines 242-264, one statement at a time: statement n of gpb_serial_io_reset
ResetStatement(sio, pkt, n) ==
    CASE n = 1 -> [sio |-> [sio EXCEPT !.syncronised = FALSE], pkt |-> pkt]
      [] n = 2 -> [sio |-> [sio EXCEPT !.rx_buff = 0], pkt |-> pkt]
      [] n = 3 -> [sio |-> [sio EXCEPT !.tx_buff = 0], pkt |-> pkt]
      [] n = 4 -> [sio |-> [sio EXCEPT !.SINOutputPinState = FALSE], pkt |-> pkt]
      [] n = 5 -> [sio |-> [sio EXCEPT !.bitMaskMap = 0], pkt |-> pkt]
      [] n \in 6..13 ->
           [sio |-> sio,
            pkt |-> [pkt EXCEPT !.statusBuffer =
                       gpb_status_bit_update(pkt.statusBuffer, 13 - n, FALSE)]]
      [] n = 14 ->
           [sio |-> sio,
            pkt |-> [pkt EXCEPT !.dataBuffer =
                       IF FEATURE_CHECKSUM_SUPPORTED
                       THEN gpb_cbuff_ResetTemp(gpb_cbuff_Reset(pkt.dataBuffer))
                       ELSE gpb_cbuff_Reset(pkt.dataBuffer)]]

ResetStatements == 14

\* the zero-initialised file-scope structs
StaticSio ==
    [SINOutputPinState |-> FALSE, syncronised |-> FALSE, preamble |-> 0,
     bitMaskMap |-> 0, mode |-> GPB_SIO_MODE_RESET, rx_buff |-> 0, tx_buff |-> 0]

StaticPktIO ==
    [initReceived |-> FALSE, printInstructionReceived |-> FALSE,
     printInstructionBuffer |-> <<0, 0, 0, 0>>,
     dataPacketReceived |-> FALSE, dataBuffer |-> gpb_cbuff_Init(0),
     dataEndPacketReceived |-> FALSE, breakPacketReceived |-> FALSE,
     nulPacketReceived |-> FALSE,
     packetState |-> GBP_PKT10_PARSE_HEADER_COMMAND_AND_COMPRESSION,
     command |-> 0, compression |-> 0, data_length |-> 0, data_i |-> 0,
     checksum |-> 0, checksumCalc |-> 0, statusBuffer |-> 0,
     packetReceivedNotify |-> FALSE, timeout_ms |-> 0,
     busyPacketCountdown |-> 0, untransPacketCountdown |-> 0,
     dataPacketCountdown |-> 0]

gpb_serial_io_init(sio, pkt, buffSize) ==
    gpb_serial_io_reset(sio,
        [pkt EXCEPT !.statusBuffer = U16(GBP_DEVICE_ID * 256),
                    !.busyPacketCountdown = 0,
                    !.dataBuffer = gpb_cbuff_Init(buffSize)])

PostInit == gpb_serial_io_init(StaticSio, StaticPktIO, BuffSize)

(***************************************************************************)
(* gbp_serial_io_timeout_handler and gbp_serial_io_dataBuff_getByte        *)
(***************************************************************************)
gbp_serial_io_timeout_handler(sio, pkt, elapsed_ms) ==
    IF pkt.breakPacketReceived
    THEN [st |-> gpb_serial_io_reset(sio, pkt), ret |-> TRUE]
    ELSE IF pkt.timeout_ms > 0
    THEN LET t == IF pkt.timeout_ms > elapsed_ms
                  THEN pkt.timeout_ms - elapsed_ms ELSE 0
             p1 == [pkt EXCEPT !.timeout_ms = t]
         IN  IF t = 0
             THEN [st |-> gpb_serial_io_reset(sio, p1), ret |-> TRUE]
             ELSE [st |-> [sio |-> sio, pkt |-> p1], ret |-> FALSE]
    ELSE [st |-> [sio |-> sio, pkt |-> pkt], ret |-> FALSE]

gbp_serial_io_dataBuff_getByte(pkt) ==
    LET d == gpb_cbuff_Dequeue(pkt.dataBuffer, 0)
        p1 == [pkt EXCEPT !.dataBuffer = d.cb]
    IN  [pkt |-> IF gpb_cbuff_Count(p1.dataBuffer) = 0
                 THEN [p1 EXCEPT !.statusBuffer =
                          gpb_status_bit_update(p1.statusBuffer,
                                                BIT_UNPROCESSED_DATA, FALSE)]
                 ELSE p1,
         b |-> d.b]

(***************************************************************************)
(* gpb_serial_io_OnChange_ISR: the packet state machine                    *)
(***************************************************************************)
\* mutant: command and compression taken from the wrong halves of the word
ParseHeader1_Swapped(sio, pkt) ==
    [sio |-> gpb_sio_next(sio, GPB_SIO_MODE_16BITS_LITTLE_ENDIAN, 0),
     pkt |-> [pkt EXCEPT !.command = gpb_sio_getByte(sio, 0),
                         !.compression = gpb_sio_getByte(sio, 1),
                         !.checksumCalc = 0,
                         !.packetState = GBP_PKT10_PARSE_HEADER_DATA_LENGTH]]

ParseHeader1(sio, pkt) ==
    [sio |-> gpb_sio_next(sio, GPB_SIO_MODE_16BITS_LITTLE_ENDIAN, 0),
     pkt |-> [pkt EXCEPT !.command = gpb_sio_getByte(sio, 1),
                         !.compression = gpb_sio_getByte(sio, 0),
                         !.checksumCalc = 0,
                         !.packetState = GBP_PKT10_PARSE_HEADER_DATA_LENGTH]]

\* mutant: a DATA packet of length 0 sent to the Payload state
ParseHeader2_EmptyPayload(sio, pkt) ==
    LET len == gpb_sio_getWord(sio)
        p1 == [pkt EXCEPT !.data_length = len, !.data_i = 0]
    IN  CASE pkt.command = GBP_COMMAND_DATA /\ len # 0 ->
               [sio |-> gpb_sio_next(sio, GPB_SIO_MODE_8BITS, 0),
                pkt |-> [p1 EXCEPT !.packetState = GBP_PKT10_PARSE_DATA_PAYLOAD]]
          [] pkt.command = GBP_COMMAND_DATA /\ len = 0 ->
               [sio |-> gpb_sio_next(sio, GPB_SIO_MODE_8BITS, 0),
                pkt |-> [p1 EXCEPT !.packetState = GBP_PKT10_PARSE_DATA_PAYLOAD]]
          [] pkt.command = GBP_COMMAND_PRINT ->
               [sio |-> gpb_sio_next(sio, GPB_SIO_MODE_8BITS, 0),
                pkt |-> [p1 EXCEPT
                           !.packetState = GBP_PKT10_PARSE_DATA_PAYLOAD,
                           !.data_length = IF len > PRINT_SIZE_LIMIT
                                           THEN PRINT_SIZE_LIMIT ELSE len]]
          [] OTHER ->
               [sio |-> gpb_sio_next(sio, GPB_SIO_MODE_16BITS_LITTLE_ENDIAN, 0),
                pkt |-> [p1 EXCEPT !.packetState = GBP_PKT10_PARSE_CHECKSUM]]

ParseHeader2(sio, pkt) ==
    LET len == gpb_sio_getWord(sio)
        p1 == [pkt EXCEPT !.data_length = len, !.data_i = 0]
    IN  CASE pkt.command = GBP_COMMAND_DATA /\ len # 0 ->
               [sio |-> gpb_sio_next(sio, GPB_SIO_MODE_8BITS, 0),
                pkt |-> [p1 EXCEPT !.packetState = GBP_PKT10_PARSE_DATA_PAYLOAD]]
          [] pkt.command = GBP_COMMAND_DATA /\ len = 0 ->
               [sio |-> gpb_sio_next(sio, GPB_SIO_MODE_16BITS_LITTLE_ENDIAN, 0),
                pkt |-> [p1 EXCEPT !.packetState = GBP_PKT10_PARSE_CHECKSUM]]
          [] pkt.command = GBP_COMMAND_PRINT ->
               [sio |-> gpb_sio_next(sio, GPB_SIO_MODE_8BITS, 0),
                pkt |-> [p1 EXCEPT
                           !.packetState = GBP_PKT10_PARSE_DATA_PAYLOAD,
                           !.data_length = IF len > PRINT_SIZE_LIMIT
                                           THEN PRINT_SIZE_LIMIT ELSE len]]
          [] OTHER ->
               [sio |-> gpb_sio_next(sio, GPB_SIO_MODE_16BITS_LITTLE_ENDIAN, 0),
                pkt |-> [p1 EXCEPT !.packetState = GBP_PKT10_PARSE_CHECKSUM]]

\* mutant: the payload byte read from the high half of the receive register
PayloadByte_High(sio) == BitAnd(sio.rx_buff \div 256, 255)

\* the byte stored for a DATA or PRINT payload transfer
PayloadByte(sio) == BitAnd(sio.rx_buff, 255)

ParsePayload(sio, pkt) ==
    LET p1 == CASE pkt.command = GBP_COMMAND_DATA ->
                     [pkt EXCEPT !.dataBuffer =
                         gpb_cbuff_EnqueueTemp(pkt.dataBuffer, PayloadByte(sio))]
                [] pkt.command = GBP_COMMAND_PRINT ->
                     [pkt EXCEPT !.printInstructionBuffer[pkt.data_i + 1] =
                         PayloadByte(sio)]
                [] OTHER -> pkt
        p2 == [p1 EXCEPT !.checksumCalc = U16(p1.checksumCalc + gpb_sio_getByte(sio, 0)),
                         !.data_i = U16(p1.data_i + 1)]
    IN  IF p2.data_i >= p2.data_length
        THEN [sio |-> gpb_sio_next(sio, GPB_SIO_MODE_16BITS_LITTLE_ENDIAN, 0),
              pkt |-> [p2 EXCEPT !.packetState = GBP_PKT10_PARSE_CHECKSUM]]
        ELSE [sio |-> gpb_sio_next(sio, GPB_SIO_MODE_8BITS, 0),
              pkt |-> [p2 EXCEPT !.packetState = GBP_PKT10_PARSE_DATA_PAYLOAD]]

ChecksumFold(sio, pkt) ==
    LET c0 == U16(pkt.checksumCalc + pkt.command)
        c1 == U16(c0 + pkt.compression)
        c2 == U16(c1 + BitAnd(pkt.data_length \div 256, 255))
        c3 == U16(c2 + BitAnd(pkt.data_length, 255))
        p1 == [pkt EXCEPT !.checksum = gpb_sio_getWord(sio), !.checksumCalc = c3]
    IN  IF FEATURE_CHECKSUM_SUPPORTED /\ p1.checksum # p1.checksumCalc
        THEN [p1 EXCEPT !.statusBuffer =
                 gpb_status_bit_update(p1.statusBuffer, BIT_CHECKSUM_ERROR, TRUE)]
        ELSE p1

\* mutant: the countdowns decremented without testing them against zero
InquiryCountdown_Unguarded(pkt) ==
    [pkt EXCEPT !.untransPacketCountdown = pkt.untransPacketCountdown - 1,
                !.busyPacketCountdown = pkt.busyPacketCountdown - 1]

\* case GBP_COMMAND_INQUIRY of the pre-dummy switch, which BREAK falls into
InquiryCountdown(pkt) ==
    IF pkt.untransPacketCountdown > 0
    THEN LET u == pkt.untransPacketCountdown - 1
             p1 == [pkt EXCEPT !.untransPacketCountdown = u]
         IN  IF u = 0
             THEN LET p2 == [p1 EXCEPT !.statusBuffer =
                               gpb_status_bit_update(p1.statusBuffer,
                                                     BIT_UNPROCESSED_DATA, FALSE)]
                  IN  IF p2.busyPacketCountdown > 0
                      THEN [p2 EXCEPT !.statusBuffer =
                              gpb_status_bit_update(
                                gpb_status_bit_update(p2.statusBuffer,
                                                      BIT_PRINTER_BUSY, TRUE),
                                BIT_PRINT_BUFFER_FULL, TRUE)]
                      ELSE p2
             ELSE p1
    ELSE IF pkt.busyPacketCountdown > 0
    THEN LET b == pkt.busyPacketCountdown - 1
             p1 == [pkt EXCEPT !.busyPacketCountdown = b]
         IN  IF b = 0
             THEN [p1 EXCEPT !.statusBuffer =
                     gpb_status_bit_update(p1.statusBuffer, BIT_PRINTER_BUSY, FALSE)]
             ELSE p1
    ELSE pkt

\* mutant: PRINT leaves the busy countdown idle
StatusUpdatePreDummy_PrintIdle(pkt) ==
    CASE pkt.command = GBP_COMMAND_INIT ->
           [pkt EXCEPT !.dataPacketCountdown = DATA_PACKET_COUNT,
                       !.untransPacketCountdown = 0,
                       !.busyPacketCountdown = 0,
                       !.statusBuffer =
                           gpb_status_bit_update(pkt.statusBuffer,
                                                 BIT_PRINT_BUFFER_FULL, FALSE)]
      [] pkt.command = GBP_COMMAND_PRINT ->
           [pkt EXCEPT !.busyPacketCountdown = 0]
      [] pkt.command = GBP_COMMAND_DATA ->
           [pkt EXCEPT !.untransPacketCountdown = UNTRANS_PACKET_COUNT]
      [] pkt.command = GBP_COMMAND_BREAK ->
           InquiryCountdown([pkt EXCEPT !.statusBuffer =
                                ClearAllStatusBits(pkt.statusBuffer)])
      [] pkt.command = GBP_COMMAND_INQUIRY -> InquiryCountdown(pkt)
      [] OTHER -> pkt

StatusUpdatePreDummy(pkt) ==
    CASE pkt.command = GBP_COMMAND_INIT ->
           [pkt EXCEPT !.dataPacketCountdown = DATA_PACKET_COUNT,
                       !.untransPacketCountdown = 0,
                       !.busyPacketCountdown = 0,
                       !.statusBuffer =
                           gpb_status_bit_update(pkt.statusBuffer,
                                                 BIT_PRINT_BUFFER_FULL, FALSE)]
      [] pkt.command = GBP_COMMAND_PRINT ->
           [pkt EXCEPT !.busyPacketCountdown = GPB_BUSY_PACKET_COUNT]
      [] pkt.command = GBP_COMMAND_DATA ->
           [pkt EXCEPT !.untransPacketCountdown = UNTRANS_PACKET_COUNT]
      [] pkt.command = GBP_COMMAND_BREAK ->
           InquiryCountdown([pkt EXCEPT !.statusBuffer =
                                ClearAllStatusBits(pkt.statusBuffer)])
      [] pkt.command = GBP_COMMAND_INQUIRY -> InquiryCountdown(pkt)
      [] OTHER -> pkt

\* mutant: the status word armed little-endian, status byte first
ArmDummy_Swapped(sio, pkt) ==
    [sio |-> gpb_sio_next(sio, GPB_SIO_MODE_16BITS_LITTLE_ENDIAN, pkt.statusBuffer),
     pkt |-> [pkt EXCEPT !.packetState = GBP_PKT10_PARSE_DUMMY]]

ArmDummy(sio, pkt) ==
    [sio |-> gpb_sio_next(sio, GPB_SIO_MODE_16BITS_BIG_ENDIAN, pkt.statusBuffer),
     pkt |-> [pkt EXCEPT !.packetState = GBP_PKT10_PARSE_DUMMY]]

ParseChecksum(sio, pkt) == ArmDummy(sio, StatusUpdatePreDummy(ChecksumFold(sio, pkt)))

\* mutant: buffer-full raised when the countdown reaches one
DataCountdown_Early(pkt) ==
    IF pkt.dataPacketCountdown > 0
    THEN LET d == pkt.dataPacketCountdown - 1
         IN  [pkt EXCEPT
                !.dataPacketCountdown = d,
                !.statusBuffer =
                    IF d <= 1
                    THEN gpb_status_bit_update(pkt.statusBuffer,
                                               BIT_PRINT_BUFFER_FULL, TRUE)
                    ELSE pkt.statusBuffer]
    ELSE pkt

\* lines 593-600: a DATA packet counts down to print-buffer-full
DataCountdown(pkt) ==
    IF pkt.dataPacketCountdown > 0
    THEN LET d == pkt.dataPacketCountdown - 1
         IN  [pkt EXCEPT
                !.dataPacketCountdown = d,
                !.statusBuffer =
                    IF d = 0
                    THEN gpb_status_bit_update(pkt.statusBuffer,
                                               BIT_PRINT_BUFFER_FULL, TRUE)
                    ELSE pkt.statusBuffer]
    ELSE pkt

\* mutant: the bit raised for the end-of-data sentinel instead
DataUnprocessed_Inverted(pkt) ==
    LET p1 == [pkt EXCEPT !.statusBuffer =
                  gpb_status_bit_update(pkt.statusBuffer,
                                        BIT_UNPROCESSED_DATA, TRUE)]
    IN  IF p1.data_length # 0
        THEN [p1 EXCEPT !.statusBuffer =
                gpb_status_bit_update(p1.statusBuffer,
                                      BIT_UNPROCESSED_DATA, FALSE)]
        ELSE p1

\* lines 601-605: unprocessed data, unless this was the end-of-data sentinel
DataUnprocessed(pkt) ==
    LET p1 == [pkt EXCEPT !.statusBuffer =
                  gpb_status_bit_update(pkt.statusBuffer,
                                        BIT_UNPROCESSED_DATA, TRUE)]
    IN  IF p1.data_length = 0
        THEN [p1 EXCEPT !.statusBuffer =
                gpb_status_bit_update(p1.statusBuffer,
                                      BIT_UNPROCESSED_DATA, FALSE)]
        ELSE p1

StatusUpdatePostDummy(pkt) ==
    CASE pkt.command = GBP_COMMAND_DATA -> DataUnprocessed(DataCountdown(pkt))
      [] pkt.command = GBP_COMMAND_INQUIRY ->
           IF pkt.untransPacketCountdown = 0 /\ pkt.busyPacketCountdown = 0
           THEN [pkt EXCEPT !.statusBuffer =
                   gpb_status_bit_update(pkt.statusBuffer,
                                         BIT_PRINT_BUFFER_FULL, FALSE)]
           ELSE pkt
      [] OTHER -> pkt

\* mutant: a command that is none of the five notified as an INQUIRY
NotifyFlags_DefaultNul(pkt) ==
    CASE pkt.command = GBP_COMMAND_INIT -> [pkt EXCEPT !.initReceived = TRUE]
      [] pkt.command = GBP_COMMAND_PRINT ->
           [pkt EXCEPT !.printInstructionReceived = TRUE]
      [] pkt.command = GBP_COMMAND_DATA ->
           IF pkt.data_length > 0
           THEN [pkt EXCEPT !.dataPacketReceived = TRUE]
           ELSE [pkt EXCEPT !.dataEndPacketReceived = TRUE]
      [] pkt.command = GBP_COMMAND_BREAK -> [pkt EXCEPT !.breakPacketReceived = TRUE]
      [] OTHER -> [pkt EXCEPT !.nulPacketReceived = TRUE]

NotifyFlags(pkt) ==
    CASE pkt.command = GBP_COMMAND_INIT -> [pkt EXCEPT !.initReceived = TRUE]
      [] pkt.command = GBP_COMMAND_PRINT ->
           [pkt EXCEPT !.printInstructionReceived = TRUE]
      [] pkt.command = GBP_COMMAND_DATA ->
           IF pkt.data_length > 0
           THEN [pkt EXCEPT !.dataPacketReceived = TRUE]
           ELSE [pkt EXCEPT !.dataEndPacketReceived = TRUE]
      [] pkt.command = GBP_COMMAND_BREAK -> [pkt EXCEPT !.breakPacketReceived = TRUE]
      [] pkt.command = GBP_COMMAND_INQUIRY -> [pkt EXCEPT !.nulPacketReceived = TRUE]
      [] OTHER -> pkt

TempBuffHandling(pkt) ==
    IF FEATURE_CHECKSUM_SUPPORTED
    THEN IF gpb_status_bit_getbit(pkt.statusBuffer, BIT_CHECKSUM_ERROR)
         THEN [pkt EXCEPT !.dataBuffer = gpb_cbuff_ResetTemp(pkt.dataBuffer)]
         ELSE [pkt EXCEPT !.dataBuffer = gpb_cbuff_AcceptTemp(pkt.dataBuffer)]
    ELSE pkt

ParseDummy(sio, pkt) ==
    LET p1 == TempBuffHandling(NotifyFlags(StatusUpdatePostDummy(pkt)))
    IN  [sio |-> [gpb_sio_next(sio, GPB_SIO_MODE_RESET, 0)
                    EXCEPT !.SINOutputPinState = FALSE],
         pkt |-> [p1 EXCEPT
                    !.packetState = GBP_PKT10_PARSE_HEADER_COMMAND_AND_COMPRESSION,
                    !.packetReceivedNotify = TRUE]]

\* lines 395-672: reached when a transfer has shifted its last bit
PacketStep(sio, pkt) ==
    LET p0 == [pkt EXCEPT !.timeout_ms = GBP_PKT10_TIMEOUT_MS]
    IN  CASE p0.packetState = GBP_PKT10_PARSE_HEADER_COMMAND_AND_COMPRESSION ->
               ParseHeader1(sio, p0)
          [] p0.packetState = GBP_PKT10_PARSE_HEADER_DATA_LENGTH -> ParseHeader2(sio, p0)
          [] p0.packetState = GBP_PKT10_PARSE_DATA_PAYLOAD -> ParsePayload(sio, p0)
          [] p0.packetState = GBP_PKT10_PARSE_CHECKSUM -> ParseChecksum(sio, p0)
          [] p0.packetState = GBP_PKT10_PARSE_DUMMY -> ParseDummy(sio, p0)

\* mutant: the window masked to one byte before the comparison
PreambleMatch_ByteMask(preamble) == BitAnd(preamble, 255) = GBP_SYNC_WORD

\* line 317: has the window matched the sync word
PreambleMatch(preamble) == BitAnd(preamble, 65535) = GBP_SYNC_WORD

\* lines 305-330
PreambleScan(sio, pkt, GBP_SCLK, GBP_SOUT) ==
    IF ~GBP_SCLK
    THEN [sio |-> sio, pkt |-> pkt, ret |-> FALSE]
    ELSE LET w == BitOr(sio.preamble, IF GBP_SOUT THEN 1 ELSE 0)
         IN  IF ~PreambleMatch(w)
             THEN [sio |-> [sio EXCEPT !.preamble = U16(w * 2)],
                   pkt |-> pkt, ret |-> FALSE]
             ELSE [sio |-> gpb_sio_next(
                              [sio EXCEPT !.preamble = 0, !.syncronised = TRUE],
                              GPB_SIO_MODE_16BITS_BIG_ENDIAN, 0),
                   pkt |-> [pkt EXCEPT !.packetState =
                              GBP_PKT10_PARSE_HEADER_COMMAND_AND_COMPRESSION],
                   ret |-> FALSE]

\* lines 349-350: sample on the rising edge, then move the mask
ShiftIn(sio, GBP_SOUT) ==
    [sio EXCEPT !.rx_buff = BitOr(sio.rx_buff,
                                  IF GBP_SOUT THEN BitAnd(sio.bitMaskMap, 65535) ELSE 0),
                !.bitMaskMap = sio.bitMaskMap \div 2]

\* line 358: drive the output on the falling edge
ShiftOut(sio) ==
    [sio EXCEPT !.SINOutputPinState = BitAnd(sio.bitMaskMap, sio.tx_buff) > 0]

WithRet(st) == [sio |-> st.sio, pkt |-> st.pkt, ret |-> st.sio.SINOutputPinState]

\* mutant: the output level left as the last transfer set it
RisingPrep_Stale(sio) == sio

\* lines 343 and 684: the next output bit, computed right after the shift
RisingPrep(sio) ==
    [sio EXCEPT !.SINOutputPinState = BitAnd(sio.bitMaskMap, sio.tx_buff) > 0]

\* lines 674-687: the end of the handler built for rising edges only
RisingExit(st) == WithRet([sio |-> RisingPrep(st.sio), pkt |-> st.pkt])

\* the handler built with GBP_FEATURE_USING_RISING_CLOCK_ONLY_ISR: it has no
\* clock argument, and the preamble scan has no test of the clock level
gpb_serial_io_OnRising_ISR(sio, pkt, GBP_SOUT) ==
    IF ~sio.syncronised
    THEN PreambleScan(sio, pkt, TRUE, GBP_SOUT)
    ELSE IF sio.bitMaskMap > 0
    THEN LET s1 == RisingPrep(ShiftIn(sio, GBP_SOUT))
         IN  IF s1.bitMaskMap > 0
             THEN WithRet([sio |-> s1, pkt |-> pkt])
             ELSE RisingExit(PacketStep(s1, pkt))
    ELSE RisingExit(PacketStep(sio, pkt))

gpb_serial_io_OnChange_ISR(sio, pkt, GBP_SCLK, GBP_SOUT) ==
    IF ~sio.syncronised
    THEN PreambleScan(sio, pkt, GBP_SCLK, GBP_SOUT)
    ELSE IF sio.bitMaskMap > 0
    THEN IF GBP_SCLK
         THEN LET s1 == ShiftIn(sio, GBP_SOUT)
              IN  IF s1.bitMaskMap > 0
                  THEN WithRet([sio |-> s1, pkt |-> pkt])
                  ELSE WithRet(PacketStep(s1, pkt))
         ELSE WithRet([sio |-> ShiftOut(sio), pkt |-> pkt])
    ELSE WithRet(PacketStep(sio, pkt))


(***************************************************************************)
(* The wire: packets as the master clocks them out, MSB first              *)
(***************************************************************************)
RECURSIVE ByteBitsFrom(_, _)
ByteBitsFrom(b, n) ==
    IF n = 0 THEN <<>>
    ELSE <<(b \div Pow2(n - 1)) % 2 = 1>> \o ByteBitsFrom(b, n - 1)

ByteBits(b) == ByteBitsFrom(b, 8)

RECURSIVE BytesBits(_)
BytesBits(bs) == IF bs = <<>> THEN <<>> ELSE ByteBits(Head(bs)) \o BytesBits(Tail(bs))

RECURSIVE SumBytes(_)
SumBytes(bs) == IF bs = <<>> THEN 0 ELSE Head(bs) + SumBytes(Tail(bs))

\* sum mod 65536 of command, compression, length low, length high, payload
WireChecksum(cmd, comp, len, payload) ==
    (cmd + comp + (len % 256) + (len \div 256) + SumBytes(payload)) % W16

Packet(cmd, comp, payload) ==
    [cmd |-> cmd, comp |-> comp, len |-> Len(payload), payload |-> payload,
     ck |-> WireChecksum(cmd, comp, Len(payload), payload)]

PacketBytes(p) ==
    <<GBP_SYNC_WORD_0, GBP_SYNC_WORD_1, p.cmd, p.comp, p.len % 256, p.len \div 256>>
    \o p.payload \o <<p.ck % 256, p.ck \div 256, 0, 0>>

PacketBits(p) == BytesBits(PacketBytes(p))

SyncBits == BytesBits(<<GBP_SYNC_WORD_0, GBP_SYNC_WORD_1>>)

NoPacket == [cmd |-> 0, comp |-> 0, len |-> 0, payload |-> <<>>, ck |-> 0]

(***************************************************************************)
(* Menus of the master                                                     *)
(***************************************************************************)
PayloadValues == {170, 85}

Payloads(n) == UNION {[1..k -> PayloadValues] : k \in 1..n}

InitPacket == Packet(GBP_COMMAND_INIT, 0, <<>>)
InquiryPacket == Packet(GBP_COMMAND_INQUIRY, 0, <<>>)
BreakPacket == Packet(GBP_COMMAND_BREAK, 0, <<>>)
PrintPacket == Packet(GBP_COMMAND_PRINT, 0, <<1, 3, 228, 64>>)
DataEndPacket == Packet(GBP_COMMAND_DATA, 0, <<>>)
DataPackets(n) == {Packet(GBP_COMMAND_DATA, 0, b) : b \in Payloads(n)}

\* one packet of every command
MenuAll ==
    {InitPacket, InquiryPacket, BreakPacket, PrintPacket, DataEndPacket,
     Packet(GBP_COMMAND_DATA, 0, <<170>>)}

\* INIT and the DATA packets, for filling the ring
MenuFill == {InitPacket, DataEndPacket, Packet(GBP_COMMAND_DATA, 0, <<170>>)}

\* one packet of every command but the end-of-data sentinel
MenuSeq ==
    {InitPacket, InquiryPacket, BreakPacket, PrintPacket,
     Packet(GBP_COMMAND_DATA, 0, <<170>>)}

\* the scenario packets: an INIT sent with checksum bytes 00 00, a second PRINT
InitScenario == [InitPacket EXCEPT !.ck = 0]
PrintOther == Packet(GBP_COMMAND_PRINT, 0, <<170, 85, 0, 255>>)

\* PRINT packets with a length field other than 4
PrintLong == Packet(GBP_COMMAND_PRINT, 0, <<1, 3, 228, 64, 7>>)
PrintEmpty == Packet(GBP_COMMAND_PRINT, 0, <<>>)

\* packets whose command byte is none of the five commands
UnknownPackets == {Packet(3, 0, <<>>), Packet(16, 1, <<>>), Packet(3, 0, <<9>>)}

\* every shape of packet: the five commands, the scenarios, a compressed
\* DATA packet, odd PRINT lengths and unknown commands
MenuWide ==
    {InitPacket, InitScenario, InquiryPacket, BreakPacket, PrintPacket, PrintOther,
     PrintLong, PrintEmpty, DataEndPacket, Packet(GBP_COMMAND_DATA, 0, <<170, 85>>),
     Packet(GBP_COMMAND_DATA, 1, <<85>>)} \cup UnknownPackets

\* a DATA packet, and the same packet with its checksum corrupted on the line
DataGood == Packet(GBP_COMMAND_DATA, 0, <<170>>)
DataBad == [DataGood EXCEPT !.ck = (DataGood.ck + 1) % W16]

MenuStage == {InitPacket, DataGood, DataBad, DataEndPacket}

\* a packet that takes the engine through all five parse states
MenuMask == {DataGood}

MenuRace == {InitPacket}

\* one packet of every command and an oversized PRINT
MenuTwin == MenuSeq \cup {PrintLong}

\* bit sequences of at most n bits
BitSeqs(n) == UNION {[1..k -> BOOLEAN] : k \in 1..n}

\* line noise: short arbitrary bursts, the two bytes of the sync word in the
\* wrong order, and a sync word cut off before its last bit
NoiseSet ==
    BitSeqs(MaxNoise) \cup {BytesBits(<<GBP_SYNC_WORD_1, GBP_SYNC_WORD_0>>),
                            SubSeq(SyncBits, 1, 15)}

ElapsedSet == {2500, 5000}

(***************************************************************************)
(* State                                                                   *)
(***************************************************************************)
VARIABLES
    gpb_sio,      \* the shifter and the synchroniser
    gpb_pktIO,    \* the packet parser, the status word, the ring, the counters
    GBP_SCLK,     \* level of the clock line (idle high)
    GBP_SIN,      \* level of the slave output: the handler's last return value
    wire,         \* bits the master has still to clock out
    cur,          \* the packet the master is sending
    obs           \* what the master and the foreground have observed

vars == <<gpb_sio, gpb_pktIO, GBP_SCLK, GBP_SIN, wire, cur, env, obs>>

\* the engine as gpb_serial_io_init leaves it, its output line low
Alone0 == [sio |-> PostInit.sio, pkt |-> PostInit.pkt, sin |-> FALSE]

Obs0 ==
    [lastOp |-> "init",       \* the last operation on the engine
     txWord |-> 0,            \* output levels sampled during this Dummy phase
     txCount |-> 0,
     latched |-> 0,           \* statusBuffer when the Checksum phase finished
     lastTx |-> 0,            \* word sampled during the last completed Dummy
     aligned |-> FALSE,       \* the engine synchronised on cur's sync word
     syncAt |-> -1,           \* bits of cur sent when the engine last synchronised
     prefix |-> <<>>,         \* the noise burst sent before the packet
     clean |-> TRUE,          \* every synchronisation since the last ring reset was aligned
     expect |-> <<>>,         \* payload sent and not yet dequeued
     overflow |-> FALSE,      \* a payload byte was sent into a full ring
     got |-> 0, want |-> 0,   \* the last dequeue: returned, and first sent
     hist |-> "none",         \* "init": INIT, DATA* ; "print": then PRINT, INQUIRY*
     dataRun |-> -1,          \* successive non-empty DATA packets since INIT
     inqRun |-> -1,           \* successive INQUIRY packets since PRINT
     silence |-> 0,           \* ms reported since the last edge
     alone |-> Alone0,        \* a second engine, fed cur without the noise before it
     rising |-> Alone0,       \* the engine built for rising edges only, fed the same bits
     sameLine |-> TRUE,       \* both builds drove the same level at every rising edge
     traced |-> FALSE,        \* the master records the packets it sends one by one
     before |-> PostInit.pkt, \* gpb_pktIO when the master started cur
     visits |-> <<>>,         \* parse states entered since the last synchronisation
     prev |-> NoPacket,       \* the packet the master sent before cur
     payloads |-> 0,          \* transfers taken in the Payload state since the last synchronisation
     whole |-> FALSE,         \* the packet just completed was synchronised on cur's sync word
     completed |-> FALSE,     \* the last thing on the line was a packet, and its Dummy phase has ended
     idle |-> FALSE,          \* the last call of the handler found such a packet, no BREAK flagged, the engine scanning
     served |-> FALSE,        \* the last BREAK packet has had its reset from the timeout handler
     again |-> FALSE,         \* the last call of the handler came after that reset, the counter not at its end
     tickKept |-> TRUE,       \* the last call of the handler left shifter, status and ring as they were
     tickRet |-> FALSE]       \* the timeout handler's last return value

\* the state gpb_serial_io_init leaves, in the build with or without
\* FEATURE_CHECKSUM_SUPPORTED
InitBuild(checksum) ==
    /\ env = [packets |-> 0, noise |-> 0, checksum |-> checksum, twin |-> FALSE,
              pc |-> 0, resets |-> 0, preempt |-> 0]
    /\ gpb_sio = PostInit.sio
    /\ gpb_pktIO = PostInit.pkt
    /\ GBP_SCLK = TRUE
    /\ GBP_SIN = FALSE
    /\ wire = <<>>
    /\ cur = NoPacket
    /\ obs = Obs0

\* the build of the source as it stands
Init == InitBuild(FALSE)

\* the build as it stands, and beside it the build with
\* GBP_FEATURE_USING_RISING_CLOCK_ONLY_ISR on the same lines
InitTwin ==
    /\ env = [packets |-> 0, noise |-> 0, checksum |-> FALSE, twin |-> TRUE,
              pc |-> 0, resets |-> 0, preempt |-> 0]
    /\ gpb_sio = PostInit.sio
    /\ gpb_pktIO = PostInit.pkt
    /\ GBP_SCLK = TRUE
    /\ GBP_SIN = FALSE
    /\ wire = <<>>
    /\ cur = NoPacket
    /\ obs = Obs0


(***************************************************************************)
(* Observers: what the environment records of a step                       *)
(***************************************************************************)
Min(a, b) == IF a < b THEN a ELSE b

\* bits of cur the master has clocked out once w is left on the wire
SentBits(p, w) == 8 * Len(PacketBytes(p)) - Len(w)

\* the engine has been reset: nothing sent before is owed any more
ObsReset(o, op, ret, ms) ==
    [o EXCEPT !.lastOp = op, !.tickRet = ret, !.silence = ms,
              !.aligned = FALSE, !.clean = TRUE, !.expect = <<>>,
              !.overflow = FALSE, !.hist = "none", !.dataRun = -1, !.inqRun = -1]

\* a packet has completed its Dummy phase with command c and length l
ObsHistory(o, c, l) ==
    CASE c = GBP_COMMAND_INIT ->
           [o EXCEPT !.hist = "init", !.dataRun = 0, !.inqRun = -1]
      [] c = GBP_COMMAND_DATA /\ o.hist = "init" ->
           [o EXCEPT !.dataRun = IF l > 0 /\ o.dataRun >= 0
                                 THEN Min(o.dataRun + 1, DATA_PACKET_COUNT + 3)
                                 ELSE -1]
      [] c = GBP_COMMAND_PRINT /\ o.hist = "init" ->
           [o EXCEPT !.hist = "print", !.dataRun = -1, !.inqRun = 0]
      [] c = GBP_COMMAND_INQUIRY /\ o.hist = "print" ->
           [o EXCEPT !.inqRun = Min(o.inqRun + 1, GPB_BUSY_PACKET_COUNT + 2)]
      [] OTHER -> [o EXCEPT !.hist = "none", !.dataRun = -1, !.inqRun = -1]

\* the payload byte of cur whose last bit this rising edge clocks out, or 0
PayloadIndex(p, w1) ==
    LET n == SentBits(p, w1)
    IN  IF p.cmd = GBP_COMMAND_DATA /\ n % 8 = 0
           /\ n \div 8 > 6 /\ n \div 8 <= 6 + Len(p.payload)
        THEN n \div 8 - 6 ELSE 0

ObsEdge(o, sio, pkt, st, clk, line, p, w1) ==
    LET inDummy == sio.syncronised /\ pkt.packetState = GBP_PKT10_PARSE_DUMMY
        done == inDummy /\ ~st.sio.syncronised
        armed == sio.syncronised /\ pkt.packetState = GBP_PKT10_PARSE_CHECKSUM
                 /\ st.pkt.packetState = GBP_PKT10_PARSE_DUMMY
        sample == clk /\ inDummy /\ sio.bitMaskMap > 0
        word == IF sample THEN o.txWord * 2 + (IF line THEN 1 ELSE 0) ELSE o.txWord
        synced == ~sio.syncronised /\ st.sio.syncronised
        al == IF synced THEN p # NoPacket /\ SentBits(p, w1) = 16
              ELSE IF done THEN FALSE ELSE o.aligned
        k == IF clk /\ o.aligned /\ p # NoPacket THEN PayloadIndex(p, w1) ELSE 0
        o1 == [o EXCEPT
                 !.lastOp = IF done THEN "packet" ELSE o.lastOp,
                 !.silence = 0,
                 !.txWord = IF armed \/ done THEN 0 ELSE word,
                 !.txCount = IF armed \/ done THEN 0
                             ELSE IF sample THEN o.txCount + 1 ELSE o.txCount,
                 !.latched = IF armed THEN st.pkt.statusBuffer ELSE o.latched,
                 !.lastTx = IF done THEN word ELSE o.lastTx,
                 !.aligned = al,
                 !.syncAt = IF synced
                            THEN IF p = NoPacket THEN -1 ELSE SentBits(p, w1)
                            ELSE o.syncAt,
                 !.clean = IF synced THEN o.clean /\ al ELSE o.clean,
                 !.visits = IF ~o.traced THEN o.visits
                            ELSE IF synced THEN <<st.pkt.packetState>>
                            ELSE IF st.sio.syncronised
                                    /\ st.pkt.packetState # pkt.packetState
                            THEN Append(o.visits, st.pkt.packetState)
                            ELSE o.visits,
                 !.whole = IF o.traced /\ done THEN o.aligned ELSE o.whole,
                 !.served = IF done /\ st.pkt.command = GBP_COMMAND_BREAK
                            THEN FALSE ELSE o.served,
                 !.completed = IF done THEN p # NoPacket /\ w1 = <<>>
                               ELSE IF synced THEN FALSE ELSE o.completed,
                 !.payloads = IF ~o.traced THEN o.payloads
                              ELSE IF synced THEN 0
                              ELSE IF clk /\ sio.syncronised /\ sio.bitMaskMap = 1
                                      /\ pkt.packetState = GBP_PKT10_PARSE_DATA_PAYLOAD
                              THEN o.payloads + 1
                              ELSE o.payloads,
                 !.expect = IF k > 0 /\ Len(o.expect) < BuffSize
                            THEN Append(o.expect, p.payload[k]) ELSE o.expect,
                 !.overflow = o.overflow \/ (k > 0 /\ Len(o.expect) >= BuffSize)]
    IN  IF done THEN ObsHistory(o1, st.pkt.command, st.pkt.data_length) ELSE o1

\* the second engine takes the edges of a packet that follows a noise burst
ObsAlone(o, clk, bit, p) ==
    IF o.prefix = <<>> \/ p = NoPacket THEN o
    ELSE LET st == gpb_serial_io_OnChange_ISR(o.alone.sio, o.alone.pkt, clk, bit)
         IN  [o EXCEPT !.alone = [sio |-> st.sio, pkt |-> st.pkt, sin |-> st.ret]]

\* the build for rising edges only takes the rising edges; line is the level
\* the dual-edge build holds on its output at this edge
ObsRising(o, clk, bit, line) ==
    IF ~env.twin \/ ~clk THEN o
    ELSE LET st == gpb_serial_io_OnRising_ISR(o.rising.sio, o.rising.pkt, bit)
         IN  [o EXCEPT !.rising = [sio |-> st.sio, pkt |-> st.pkt, sin |-> st.ret],
                       !.sameLine = o.sameLine /\ (o.rising.sin = line)]

(***************************************************************************)
(* One clock edge: the handler runs with the level of the clock and the    *)
(* bit the master holds on the line; its return value drives the output.   *)
(* m is the engine with its lines, p the packet the master is sending.     *)
(***************************************************************************)
Machine == [sio |-> gpb_sio, pkt |-> gpb_pktIO, sin |-> GBP_SIN, wire |-> wire,
            obs |-> [obs EXCEPT !.lastOp = "edge"]]

Edge(m, clk, p) ==
    LET st == gpb_serial_io_OnChange_ISR(m.sio, m.pkt, clk, Head(m.wire))
        w1 == IF clk THEN Tail(m.wire) ELSE m.wire
    IN  [sio |-> st.sio, pkt |-> st.pkt, sin |-> st.ret, wire |-> w1,
         obs |-> ObsRising(
                    ObsAlone(ObsEdge(m.obs, m.sio, m.pkt, st, clk, m.sin, p, w1),
                             clk, Head(m.wire), p),
                    clk, Head(m.wire), m.sin)]

\* n bits: a falling and a rising edge each
RECURSIVE ClockBits(_, _, _)
ClockBits(m, n, p) ==
    IF n = 0 THEN m ELSE ClockBits(Edge(Edge(m, FALSE, p), TRUE, p), n - 1, p)

Install(m) ==
    /\ gpb_sio' = m.sio
    /\ gpb_pktIO' = m.pkt
    /\ GBP_SIN' = m.sin
    /\ wire' = m.wire
    /\ obs' = m.obs

(***************************************************************************)
(* Actions of the master                                                   *)
(***************************************************************************)
StartPacket(p, limit) ==
    /\ wire = <<>>
    /\ GBP_SCLK
    /\ env.packets < limit
    /\ wire' = PacketBits(p)
    /\ cur' = p
    /\ env' = [env EXCEPT !.packets = env.packets + 1]
    /\ obs' = [obs EXCEPT !.aligned = FALSE, !.alone = Alone0,
                          !.clean = obs.clean /\ ~gpb_sio.syncronised]
    /\ UNCHANGED <<gpb_sio, gpb_pktIO, GBP_SCLK, GBP_SIN>>

\* the master starts a packet and records the engine as it stands
StartTraced(p, limit) ==
    /\ wire = <<>>
    /\ GBP_SCLK
    /\ env.packets < limit
    /\ wire' = PacketBits(p)
    /\ cur' = p
    /\ env' = [env EXCEPT !.packets = env.packets + 1]
    /\ obs' = [obs EXCEPT !.aligned = FALSE, !.alone = Alone0,
                          !.clean = obs.clean /\ ~gpb_sio.syncronised,
                          !.traced = TRUE, !.before = gpb_pktIO, !.whole = FALSE,
                          !.prev = cur]
    /\ UNCHANGED <<gpb_sio, gpb_pktIO, GBP_SCLK, GBP_SIN>>

SendNoise(bits, limit) ==
    /\ wire = <<>>
    /\ GBP_SCLK
    /\ env.noise < limit
    /\ bits # <<>>
    /\ wire' = bits
    /\ cur' = NoPacket
    /\ env' = [env EXCEPT !.noise = env.noise + 1]
    /\ obs' = [obs EXCEPT !.aligned = FALSE, !.prefix = bits,
                          !.clean = obs.clean /\ ~gpb_sio.syncronised]
    /\ UNCHANGED <<gpb_sio, gpb_pktIO, GBP_SCLK, GBP_SIN>>

Falling ==
    /\ wire # <<>>
    /\ GBP_SCLK
    /\ Install(Edge(Machine, FALSE, cur))
    /\ GBP_SCLK' = FALSE
    /\ UNCHANGED <<cur, env>>

Rising ==
    /\ wire # <<>>
    /\ ~GBP_SCLK
    /\ Install(Edge(Machine, TRUE, cur))
    /\ GBP_SCLK' = TRUE
    /\ UNCHANGED <<cur, env>>

\* the master's serial unit clocks one byte out in a burst of sixteen edges
ClockByte ==
    /\ Len(wire) >= 8
    /\ GBP_SCLK
    /\ Install(ClockBits(Machine, 8, cur))
    /\ UNCHANGED <<GBP_SCLK, cur, env>>

\* one bit of a burst that is no whole byte
ClockBit ==
    /\ wire # <<>>
    /\ Len(wire) % 8 # 0
    /\ GBP_SCLK
    /\ Install(ClockBits(Machine, 1, cur))
    /\ UNCHANGED <<GBP_SCLK, cur, env>>

\* after a long silence the master gives up the rest of its packet
Abort ==
    /\ wire # <<>>
    /\ GBP_SCLK
    /\ Len(wire) % 8 = 0
    /\ obs.silence >= GBP_PKT10_TIMEOUT_MS
    /\ wire' = <<>>
    /\ cur' = NoPacket
    /\ UNCHANGED <<gpb_sio, gpb_pktIO, GBP_SCLK, GBP_SIN, env, obs>>

(***************************************************************************)
(* Actions of the foreground                                               *)
(***************************************************************************)
\* between two bytes of the master, the clock idle
Quiet == GBP_SCLK /\ Len(wire) % 8 = 0

TimeoutHandler(elapsed_ms) ==
    /\ LET r == gbp_serial_io_timeout_handler(gpb_sio, gpb_pktIO, elapsed_ms)
           ms == Min(obs.silence + elapsed_ms, GBP_PKT10_TIMEOUT_MS)
           expires == gpb_pktIO.timeout_ms > 0 /\ gpb_pktIO.timeout_ms <= elapsed_ms
           o1 == [obs EXCEPT
                    !.again = obs.served /\ ~expires,
                    !.idle = /\ obs.completed /\ wire = <<>> /\ cur # NoPacket
                             /\ ~gpb_sio.syncronised
                             /\ ~gpb_pktIO.breakPacketReceived,
                    !.served = obs.served \/ gpb_pktIO.breakPacketReceived,
                    !.tickKept = /\ r.st.sio = gpb_sio
                                 /\ r.st.pkt.statusBuffer = gpb_pktIO.statusBuffer
                                 /\ r.st.pkt.dataBuffer = gpb_pktIO.dataBuffer]
       IN  /\ gpb_sio' = r.st.sio
           /\ gpb_pktIO' = r.st.pkt
           /\ obs' = IF r.ret THEN ObsReset(o1, "tick", TRUE, ms)
                     ELSE [o1 EXCEPT !.lastOp = "tick", !.tickRet = FALSE,
                                     !.silence = ms]
    /\ UNCHANGED <<GBP_SCLK, GBP_SIN, wire, cur, env>>

Tick(elapsed_ms) == Quiet /\ TimeoutHandler(elapsed_ms)

Reset ==
    /\ Quiet
    /\ LET st == gpb_serial_io_reset(gpb_sio, gpb_pktIO)
       IN  /\ gpb_sio' = st.sio
           /\ gpb_pktIO' = st.pkt
    /\ obs' = ObsReset(obs, "reset", obs.tickRet, obs.silence)
    /\ UNCHANGED <<GBP_SCLK, GBP_SIN, wire, cur, env>>

Dequeue ==
    /\ LET r == gbp_serial_io_dataBuff_getByte(gpb_pktIO)
       IN  /\ gpb_pktIO' = r.pkt
           /\ obs' = [obs EXCEPT
                        !.lastOp = "get",
                        !.got = r.b,
                        !.want = IF obs.expect = <<>> THEN 0 ELSE Head(obs.expect),
                        !.expect = IF obs.expect = <<>> THEN <<>>
                                   ELSE Tail(obs.expect)]
    /\ UNCHANGED <<gpb_sio, GBP_SCLK, GBP_SIN, wire, cur, env>>

GetByte == Quiet /\ Dequeue

\* the consumer running between any two edges
GetByteAnyTime == Dequeue

\* the timeout handler and the reset running between any two edges
TickAnyTime(elapsed_ms) == TimeoutHandler(elapsed_ms)

ResetAnyTime ==
    /\ LET st == gpb_serial_io_reset(gpb_sio, gpb_pktIO)
       IN  /\ gpb_sio' = st.sio
           /\ gpb_pktIO' = st.pkt
    /\ obs' = ObsReset(obs, "reset", obs.tickRet, obs.silence)
    /\ UNCHANGED <<GBP_SCLK, GBP_SIN, wire, cur, env>>

(***************************************************************************)
(* The foreground in gbp_serial_io_timeout_handler, not shielded from the  *)
(* edge interrupt: env.pc is the statement of gpb_serial_io_reset it is to *)
(* run next, 0 when it is in neither.                                      *)
(***************************************************************************)
\* lines 196-211 up to the call of gpb_serial_io_reset
TimeoutBegin(elapsed_ms) ==
    /\ env.pc = 0
    /\ env.resets < MaxRaceResets
    /\ LET t == IF gpb_pktIO.timeout_ms > elapsed_ms
                THEN gpb_pktIO.timeout_ms - elapsed_ms ELSE 0
           ms == Min(obs.silence + elapsed_ms, GBP_PKT10_TIMEOUT_MS)
       IN  /\ IF gpb_pktIO.breakPacketReceived
              THEN /\ env' = [env EXCEPT !.pc = 1, !.preempt = 0]
                   /\ UNCHANGED gpb_pktIO
              ELSE IF gpb_pktIO.timeout_ms > 0
              THEN /\ gpb_pktIO' = [gpb_pktIO EXCEPT !.timeout_ms = t]
                   /\ env' = [env EXCEPT !.pc = IF t = 0 THEN 1 ELSE 0, !.preempt = 0]
              ELSE UNCHANGED <<gpb_pktIO, env>>
           /\ obs' = [obs EXCEPT !.lastOp = "tick", !.tickRet = FALSE, !.silence = ms]
    /\ UNCHANGED <<gpb_sio, GBP_SCLK, GBP_SIN, wire, cur>>

\* one statement of gpb_serial_io_reset; after the last the handler returns true
ResetStep ==
    /\ env.pc > 0
    /\ LET st == ResetStatement(gpb_sio, gpb_pktIO, env.pc)
       IN  /\ gpb_sio' = st.sio
           /\ gpb_pktIO' = st.pkt
    /\ IF env.pc < ResetStatements
       THEN /\ env' = [env EXCEPT !.pc = env.pc + 1]
            /\ UNCHANGED obs
       ELSE /\ env' = [env EXCEPT !.pc = 0, !.resets = env.resets + 1]
            /\ obs' = ObsReset(obs, "tick", TRUE, obs.silence)
    /\ UNCHANGED <<GBP_SCLK, GBP_SIN, wire, cur>>

\* a clock edge: the interrupt runs the handler at once, also inside the reset
EdgeRace(clk) ==
    /\ wire # <<>>
    /\ GBP_SCLK = ~clk
    /\ IF env.pc = 0 THEN env.resets < MaxRaceResets ELSE env.preempt < MaxPreempt
    /\ Install(Edge(Machine, clk, cur))
    /\ GBP_SCLK' = clk
    /\ env' = [env EXCEPT !.preempt = IF env.pc = 0 THEN 0 ELSE env.preempt + 1]
    /\ UNCHANGED cur

FallingRace == GBP_SCLK /\ EdgeRace(FALSE)

RisingRace == ~GBP_SCLK /\ EdgeRace(TRUE)

(***************************************************************************)
(* Specifications                                                          *)
(***************************************************************************)
\* every command, byte by byte, with the timeout handler, reset and consumer
Next ==
    \/ \E p \in MenuAll : StartPacket(p, MaxPackets)
    \/ ClockByte
    \/ Abort
    \/ \E e \in ElapsedSet : Tick(e)
    \/ Reset
    \/ GetByte

Spec == Init /\ [][Next]_vars

\* sequences of packets of every command, byte by byte
NextSeq ==
    \/ \E p \in MenuSeq : StartPacket(p, MaxSeqPackets)
    \/ ClockByte

SpecSeq == Init /\ [][NextSeq]_vars

\* INIT and DATA packets filling the ring, byte by byte, with the consumer
NextFill ==
    \/ \E p \in MenuFill : StartPacket(p, MaxFillPackets)
    \/ ClockByte
    \/ GetByte

SpecFill == Init /\ [][NextFill]_vars

\* edge by edge, the consumer running between any two edges
NextEdge ==
    \/ \E p \in MenuSeq : StartPacket(p, MaxEdgePackets)
    \/ Falling
    \/ Rising
    \/ GetByteAnyTime

SpecEdge == Init /\ [][NextEdge]_vars


\* DATA packets of every payload, with the consumer
NextData ==
    \/ \E p \in DataPackets(MaxPayload) : StartPacket(p, MaxDataPackets)
    \/ ClockByte
    \/ GetByte

SpecData == Init /\ [][NextData]_vars

\* packets of every shape, byte by byte, each recorded by the master
NextWide ==
    \/ \E p \in MenuWide : StartTraced(p, MaxWidePackets)
    \/ ClockByte

SpecWide == Init /\ [][NextWide]_vars

\* the build with FEATURE_CHECKSUM_SUPPORTED: DATA packets with good and bad
\* checksums, byte by byte
InitStage == InitBuild(TRUE)

NextStage ==
    \/ \E p \in MenuStage : StartTraced(p, MaxStagePackets)
    \/ ClockByte

SpecStage == InitStage /\ [][NextStage]_vars

\* edge by edge, the timeout handler and the reset between any two edges
NextMask ==
    \/ \E p \in MenuMask : StartPacket(p, MaxMaskPackets)
    \/ Falling
    \/ Rising
    \/ \E e \in ElapsedSet : TickAnyTime(e)
    \/ ResetAnyTime

SpecMask == Init /\ [][NextMask]_vars

\* both builds of the handler on the same clock and data lines, edge by edge
NextTwin ==
    \/ \E p \in MenuTwin : StartPacket(p, MaxTwinPackets)
    \/ \E n \in NoiseSet : SendNoise(n, MaxTwinNoise)
    \/ Falling
    \/ Rising

SpecTwin == InitTwin /\ [][NextTwin]_vars

\* the edge interrupt against the timeout handler's reset, statement by statement
NextRace ==
    \/ \E p \in MenuRace : StartPacket(p, MaxRacePackets)
    \/ FallingRace
    \/ RisingRace
    \/ \E e \in ElapsedSet : TimeoutBegin(e)
    \/ ResetStep

SpecRace == Init /\ [][NextRace]_vars

\* a fresh engine, one burst of noise, then one packet
NextNoise ==
    \/ \E n \in NoiseSet : env.packets = 0 /\ SendNoise(n, 1)
    \/ \E p \in MenuAll : StartPacket(p, 1)
    \/ ClockByte
    \/ ClockBit

SpecNoise == Init /\ [][NextNoise]_vars


(***************************************************************************)
(* Properties                                                              *)
(***************************************************************************)
\* the engine has armed the Dummy phase of the packet cur
ChecksumDone ==
    /\ obs.traced /\ obs.aligned
    /\ gpb_sio.syncronised /\ gpb_pktIO.packetState = GBP_PKT10_PARSE_DUMMY

\* the engine has completed the Dummy phase of a packet that it had
\* synchronised on cur's sync word
WholeDone == obs.lastOp = "packet" /\ obs.whole

WellFormed(p) == p.len = Len(p.payload) /\ p.ck = WireChecksum(p.cmd, p.comp, p.len, p.payload)

StatusByte == gpb_pktIO.statusBuffer % 256
StatusBit(b) == gpb_status_bit_getbit(gpb_pktIO.statusBuffer, b)
TxBit(b) == gpb_status_bit_getbit(obs.lastTx, b)
PacketDone == obs.lastOp = "packet"

\* C1: payload bytes sent in well-formed DATA packets to an engine that
\* synchronised on their sync words, with room in the ring, are in the ring
\* in wire order until they are dequeued, and each dequeue returns the
\* oldest byte sent and not yet dequeued.
C1_RoundTrip ==
    (obs.clean /\ ~obs.overflow) =>
        /\ gpb_pktIO.dataBuffer.data = obs.expect
        /\ (obs.lastOp = "get" => obs.got = obs.want)

\* a second DATA packet has completed and the consumer has just dequeued 0x55
\* with a later byte still queued
C1_Witness ==
    /\ obs.clean /\ ~obs.overflow
    /\ env.packets = 2 /\ wire = <<>>
    /\ obs.lastOp = "get" /\ obs.got = 85
    /\ obs.expect = <<170>>
    /\ gpb_pktIO.dataPacketReceived

\* does the sync word end at a position before the end of w's sixteenth bit
\* after the noise n
RECURSIVE SyncEndsBefore(_, _)
SyncEndsBefore(bits, i) ==
    IF i < 16 THEN FALSE
    ELSE SubSeq(bits, i - 15, i) = SyncBits \/ SyncEndsBefore(bits, i - 1)

\* no 16-bit window ending in the noise, or in the first 15 bits of the sync
\* word that follows it, is the sync word
CleanPrefix(n) == ~SyncEndsBefore(n \o SyncBits, Len(n) + 15)

\* the engine and its output line are those of the second engine
SameAsAlone ==
    /\ gpb_sio = obs.alone.sio
    /\ gpb_pktIO = obs.alone.pkt
    /\ GBP_SIN = obs.alone.sin

AfterNoiseAndPacket == env.noise = 1 /\ env.packets = 1 /\ cur # NoPacket

\* C2, original: whatever the noise before it, a packet is decoded as it is alone
C2_AnyNoise ==
    (AfterNoiseAndPacket /\ wire = <<>>) => SameAsAlone

\* C2, amended: after noise in which no 16-bit window, continued into the
\* first 15 bits of the packet's sync word, is the sync word, the engine
\* synchronises at the end of the packet's sync word and nowhere before,
\* and from there on the engine and its output line are, edge for edge, those
\* of a fresh engine fed the packet alone.
C2_CleanNoise ==
    (AfterNoiseAndPacket /\ CleanPrefix(obs.prefix)) =>
        /\ SentBits(cur, wire) < 16 => ~gpb_sio.syncronised /\ obs.syncAt = -1
        /\ SentBits(cur, wire) >= 16 => obs.syncAt = 16 /\ SameAsAlone

\* a DATA packet has been decoded after a burst of noise
C2_Witness ==
    /\ AfterNoiseAndPacket /\ wire = <<>>
    /\ Len(obs.prefix) = MaxNoise /\ CleanPrefix(obs.prefix)
    /\ gpb_pktIO.dataPacketReceived
    /\ gpb_pktIO.dataBuffer.data = <<170>>

\* C3: the bits on the output line at the rising edges of a Dummy phase are,
\* MSB first, 0x81 and the status byte as the Checksum phase left it; the
\* high byte of the status word is 0x81 in every state.
C3_DummyWord ==
    LET word == GBP_DEVICE_ID * 256 + (obs.latched % 256)
    IN  /\ gpb_pktIO.statusBuffer \div 256 = GBP_DEVICE_ID
        /\ (gpb_sio.syncronised /\ gpb_pktIO.packetState = GBP_PKT10_PARSE_DUMMY)
              => /\ obs.latched \div 256 = GBP_DEVICE_ID
                 /\ obs.txWord = word \div Pow2(16 - obs.txCount)
        /\ PacketDone => obs.lastTx = word /\ obs.lastTx \div 256 = GBP_DEVICE_ID

\* a Dummy phase has sent 0x81 0x08 although the consumer emptied the ring,
\* clearing the unprocessed-data bit, while it was being shifted out
C3_Witness ==
    /\ PacketDone
    /\ obs.lastTx = GBP_DEVICE_ID * 256 + 8
    /\ StatusByte = 0

\* C4: a packet in flight does not survive 5000 ms without an edge: once the
\* timeout handler has been told of that much silence the engine is unsynchronised.
C4_TimeoutResets ==
    (obs.lastOp = "tick" /\ obs.silence >= GBP_PKT10_TIMEOUT_MS)
        => ~gpb_sio.syncronised

\* C5: gpb_serial_io_reset leaves the state gpb_serial_io_init leaves.
C5_ResetIsPostInit ==
    obs.lastOp = "reset" =>
        /\ ~gpb_sio.syncronised /\ gpb_sio.preamble = PostInit.sio.preamble
        /\ gpb_sio.bitMaskMap = 0
        /\ gpb_pktIO.statusBuffer = PostInit.pkt.statusBuffer
        /\ gpb_pktIO.dataBuffer = PostInit.pkt.dataBuffer
        /\ gpb_pktIO.packetState = PostInit.pkt.packetState
        /\ gpb_pktIO.dataPacketCountdown = PostInit.pkt.dataPacketCountdown
        /\ gpb_pktIO.untransPacketCountdown = PostInit.pkt.untransPacketCountdown
        /\ gpb_pktIO.busyPacketCountdown = PostInit.pkt.busyPacketCountdown
        /\ gpb_pktIO.timeout_ms = PostInit.pkt.timeout_ms
        /\ gpb_pktIO.initReceived = PostInit.pkt.initReceived
        /\ gpb_pktIO.printInstructionReceived = PostInit.pkt.printInstructionReceived
        /\ gpb_pktIO.dataPacketReceived = PostInit.pkt.dataPacketReceived
        /\ gpb_pktIO.dataEndPacketReceived = PostInit.pkt.dataEndPacketReceived
        /\ gpb_pktIO.breakPacketReceived = PostInit.pkt.breakPacketReceived
        /\ gpb_pktIO.nulPacketReceived = PostInit.pkt.nulPacketReceived
        /\ gpb_pktIO.packetReceivedNotify = PostInit.pkt.packetReceivedNotify

\* C6: a BREAK packet sends status 0x00 in its Dummy phase and leaves all
\* status bits clear and the synchroniser scanning.
C6_BreakResets ==
    (PacketDone /\ gpb_pktIO.command = GBP_COMMAND_BREAK) =>
        /\ obs.lastTx % 256 = 0
        /\ StatusByte = 0
        /\ ~gpb_sio.syncronised

CounterStep(c, d, value, command) ==
    \/ d = c
    \/ d = c - 1
    \/ d = value /\ gpb_pktIO'.command = command
    \/ d = 0 /\ gpb_pktIO'.command = GBP_COMMAND_INIT

CountersNonNegative ==
    /\ gpb_pktIO.dataPacketCountdown >= 0
    /\ gpb_pktIO.untransPacketCountdown >= 0
    /\ gpb_pktIO.busyPacketCountdown >= 0

\* C7: the three countdowns are never negative, and a step leaves each
\* unchanged, takes one off it, or sets it to its reset value: 6 on INIT
\* for the data countdown, 3 on DATA for the untransmitted countdown, 3 on
\* PRINT for the busy countdown, 0 on INIT for the last two.
C7_Counters ==
    /\ [] CountersNonNegative
    /\ [][/\ CounterStep(gpb_pktIO.dataPacketCountdown,
                         gpb_pktIO'.dataPacketCountdown,
                         DATA_PACKET_COUNT, GBP_COMMAND_INIT)
          /\ CounterStep(gpb_pktIO.untransPacketCountdown,
                         gpb_pktIO'.untransPacketCountdown,
                         UNTRANS_PACKET_COUNT, GBP_COMMAND_DATA)
          /\ CounterStep(gpb_pktIO.busyPacketCountdown,
                         gpb_pktIO'.busyPacketCountdown,
                         GPB_BUSY_PACKET_COUNT, GBP_COMMAND_PRINT)]_vars

\* the busy countdown has run from 3 to 0 over three INQUIRY packets and a
\* fourth INQUIRY has found it at zero
C7_Witness ==
    /\ PacketDone /\ obs.hist = "print" /\ obs.inqRun = GPB_BUSY_PACKET_COUNT + 1
    /\ gpb_pktIO.busyPacketCountdown = 0
    /\ gpb_pktIO.untransPacketCountdown = 0
    /\ gpb_pktIO.dataPacketCountdown = DATA_PACKET_COUNT

\* C8: the first three INQUIRY packets after a PRINT (itself after INIT and
\* DATA packets only) send the printer-busy bit set, the fourth sends it clear.
C8_BusyAfterPrint ==
    (PacketDone /\ obs.hist = "print") =>
        /\ obs.inqRun \in 1..GPB_BUSY_PACKET_COUNT => TxBit(BIT_PRINTER_BUSY)
        /\ obs.inqRun = GPB_BUSY_PACKET_COUNT + 1 => ~TxBit(BIT_PRINTER_BUSY)

\* C9: between packets, after INIT and k non-empty DATA packets with nothing
\* else in between, print-buffer-full is clear for k = 1..5 and set for k = 6.
C9_SixthDataFull ==
    wire = <<>> =>
        /\ obs.dataRun \in 1..(DATA_PACKET_COUNT - 1) => ~StatusBit(BIT_PRINT_BUFFER_FULL)
        /\ obs.dataRun = DATA_PACKET_COUNT => StatusBit(BIT_PRINT_BUFFER_FULL)

\* the sixth DATA packet after INIT has completed
C9_Witness ==
    /\ PacketDone /\ obs.dataRun = DATA_PACKET_COUNT
    /\ StatusBit(BIT_PRINT_BUFFER_FULL)
    /\ gpb_pktIO.dataPacketCountdown = 0

NonEmptyDataDone ==
    /\ PacketDone /\ obs.hist = "init"
    /\ gpb_pktIO.command = GBP_COMMAND_DATA /\ gpb_pktIO.data_length > 0

\* C10, original: the Dummy phase of a non-empty DATA packet after INIT sends
\* the unprocessed-data bit set, and raises dataPacketReceived when it ends.
C10_SentInOwnDummy ==
    NonEmptyDataDone =>
        /\ TxBit(BIT_UNPROCESSED_DATA)
        /\ gpb_pktIO.dataPacketReceived

\* C10, amended: the Dummy phase of a non-empty DATA packet after INIT sends
\* the status byte as the Checksum phase left it, with the unprocessed-data
\* bit clear when INIT and this packet are all the engine has received; when
\* that Dummy phase ends the bit is set in the status byte and
\* dataPacketReceived is raised.
C10_SetAfterOwnDummy ==
    NonEmptyDataDone =>
        /\ obs.lastTx % 256 = obs.latched % 256
        /\ (env.packets = 2 => ~TxBit(BIT_UNPROCESSED_DATA))
        /\ StatusBit(BIT_UNPROCESSED_DATA)
        /\ gpb_pktIO.dataPacketReceived

\* the first DATA packet after INIT has sent 0x81 0x00 and left the bit set
C10_Witness ==
    /\ NonEmptyDataDone /\ obs.dataRun = 1
    /\ obs.lastTx = GBP_DEVICE_ID * 256
    /\ StatusBit(BIT_UNPROCESSED_DATA)

\* C11: at the end of the Checksum phase of a well-formed packet, whatever its
\* command, compression byte and length, checksumCalc equals checksum, the
\* sum mod 65536 of command, compression, the two length bytes and the payload.
C11_ChecksumMatches ==
    (ChecksumDone /\ WellFormed(cur)) =>
        /\ gpb_pktIO.checksumCalc = gpb_pktIO.checksum
        /\ gpb_pktIO.checksum = cur.ck

\* C12: of a PRINT packet with length L > 4 the first four payload bytes are
\* stored, the other L - 4 are consumed as payload, the two bytes after the
\* L-th payload byte are read as the checksum and the status word is shifted
\* out during the packet's own two dummy bytes.
C12_OversizedPrint ==
    (WholeDone /\ cur.cmd = GBP_COMMAND_PRINT /\ cur.len > PRINT_SIZE_LIMIT) =>
        /\ gpb_pktIO.printInstructionBuffer = SubSeq(cur.payload, 1, PRINT_SIZE_LIMIT)
        /\ gpb_pktIO.checksum = cur.ck
        /\ wire = <<>>

Commands ==
    {GBP_COMMAND_INIT, GBP_COMMAND_PRINT, GBP_COMMAND_DATA, GBP_COMMAND_BREAK,
     GBP_COMMAND_INQUIRY}

FourStates ==
    <<GBP_PKT10_PARSE_HEADER_COMMAND_AND_COMPRESSION, GBP_PKT10_PARSE_HEADER_DATA_LENGTH,
      GBP_PKT10_PARSE_CHECKSUM, GBP_PKT10_PARSE_DUMMY>>

Flags(pkt) ==
    <<pkt.initReceived, pkt.printInstructionReceived, pkt.dataPacketReceived,
      pkt.dataEndPacketReceived, pkt.breakPacketReceived, pkt.nulPacketReceived>>

Counters(pkt) ==
    <<pkt.dataPacketCountdown, pkt.untransPacketCountdown, pkt.busyPacketCountdown>>

C14_RetransmitWins ==
    (WholeDone /\ env.checksum /\ cur.cmd = GBP_COMMAND_DATA /\ cur.len > 0) =>
        /\ ~WellFormed(cur) =>
              /\ TxBit(BIT_CHECKSUM_ERROR)
              /\ gpb_pktIO.dataBuffer.data = obs.before.dataBuffer.data
              /\ gpb_pktIO.dataBuffer.temp = <<>>
        /\ (WellFormed(cur) /\ ~WellFormed(obs.prev) /\ obs.prev.payload = cur.payload
               /\ Len(obs.before.dataBuffer.data) + cur.len <= BuffSize) =>
              gpb_pktIO.dataBuffer.data = obs.before.dataBuffer.data \o cur.payload

\* the first packet of a fresh engine is the INIT scenario 88 33 01 00 00 00 00 00
InitScenarioFed == env.packets = 1 /\ env.noise = 0 /\ cur = InitScenario

\* C15 (as stated): once exactly the eight bytes 88 33 01 00 00 00 00 00 have
\* been fed to a fresh engine, initReceived is true, the eight status bits
\* are zero and 0x81 0x00 has been transmitted.
C15_EightBytes ==
    (InitScenarioFed /\ SentBits(cur, wire) = 64) =>
        /\ gpb_pktIO.initReceived
        /\ StatusByte = 0
        /\ obs.lastTx = GBP_DEVICE_ID * 256

\* C15 (amended): once the eight bytes and the two dummy bytes 00 00 that
\* end the packet have been fed to a fresh engine, initReceived is true, the
\* eight status bits are zero and 0x81 0x00 was transmitted during the two
\* dummy bytes; after the eight bytes alone the engine has only armed the
\* Dummy state and initReceived is still false.
C15_TenBytes ==
    /\ (InitScenarioFed /\ SentBits(cur, wire) = 64) =>
          /\ gpb_pktIO.packetState = GBP_PKT10_PARSE_DUMMY
          /\ gpb_sio.tx_buff = GBP_DEVICE_ID * 256
          /\ ~gpb_pktIO.initReceived
          /\ StatusByte = 0
    /\ (InitScenarioFed /\ SentBits(cur, wire) = 80) =>
          /\ WholeDone
          /\ gpb_pktIO.initReceived
          /\ StatusByte = 0
          /\ obs.lastTx = GBP_DEVICE_ID * 256
          /\ ~gpb_sio.syncronised

C15_Witness ==
    /\ InitScenarioFed /\ wire = <<>> /\ WholeDone
    /\ gpb_pktIO.initReceived /\ obs.lastTx = GBP_DEVICE_ID * 256

\* a PRINT packet of length 4 has been received whole, right after the INIT
\* packet that was the first packet of a fresh engine
PrintAfterInit ==
    /\ WholeDone /\ env.packets = 2 /\ env.noise = 0
    /\ obs.prev.cmd = GBP_COMMAND_INIT
    /\ cur.cmd = GBP_COMMAND_PRINT /\ cur.len = 4 /\ WellFormed(cur)

\* C16: after a completed INIT packet, a PRINT packet with length 4 and
\* payload p0..p3 leaves printInstructionBuffer = [p0,p1,p2,p3] in wire order,
\* printInstructionReceived true and busyPacketCountdown = 3, and the dummy
\* bytes transmitted for the PRINT packet are 0x81 0x00.
C16_PrintScenario ==
    PrintAfterInit =>
        /\ gpb_pktIO.printInstructionBuffer = cur.payload
        /\ gpb_pktIO.printInstructionReceived
        /\ gpb_pktIO.busyPacketCountdown = GPB_BUSY_PACKET_COUNT
        /\ obs.lastTx = GBP_DEVICE_ID * 256
        /\ wire = <<>>

C16_Witness ==
    /\ PrintAfterInit /\ obs.prev = InitScenario
    /\ PacketBytes(cur) = <<136, 51, 2, 0, 4, 0, 1, 3, 228, 64, 46, 1, 0, 0>>
    /\ gpb_pktIO.printInstructionBuffer = <<1, 3, 228, 64>>
    /\ gpb_pktIO.busyPacketCountdown = 3

\* C17: when dataPacketReceived is raised for a DATA packet, every payload
\* byte of that packet is committed to the ring and none is left staged or
\* has been discarded.
C17_FlagAfterCommit ==
    (WholeDone /\ cur.cmd = GBP_COMMAND_DATA /\ cur.len > 0
       /\ Len(obs.before.dataBuffer.data) + cur.len <= BuffSize
       /\ gpb_pktIO.dataPacketReceived) =>
        /\ gpb_pktIO.dataBuffer.data = obs.before.dataBuffer.data \o cur.payload
        /\ gpb_pktIO.dataBuffer.temp = <<>>

FiveStates ==
    <<GBP_PKT10_PARSE_HEADER_COMMAND_AND_COMPRESSION, GBP_PKT10_PARSE_HEADER_DATA_LENGTH,
      GBP_PKT10_PARSE_DATA_PAYLOAD, GBP_PKT10_PARSE_CHECKSUM, GBP_PKT10_PARSE_DUMMY>>

\* the packets that Header2 sends to the Payload state
HasPayloadState(p) ==
    p.cmd = GBP_COMMAND_PRINT \/ (p.cmd = GBP_COMMAND_DATA /\ p.len # 0)

\* C18 (as stated): every packet, whatever its command and length, enters
\* Header1, Header2, Payload, Checksum and Dummy in that order, each exactly
\* once, between its sync word and the return to the preamble scan.
C18_AllFive == WholeDone => obs.visits = FiveStates

\* C18 (amended): every packet enters Header1, Header2, Checksum and Dummy in
\* that order, each exactly once, between its sync word and the return to
\* the preamble scan; the Payload state is entered, once and between Header2
\* and Checksum, exactly by PRINT packets and by DATA packets with a length
\* other than 0, and by no other packet.
C18_FourOrFive ==
    LET states == IF HasPayloadState(cur) THEN FiveStates ELSE FourStates
    IN  /\ WholeDone => obs.visits = states
        /\ (obs.traced /\ obs.aligned /\ gpb_sio.syncronised) =>
              /\ Len(obs.visits) <= Len(states)
              /\ obs.visits = SubSeq(states, 1, Len(obs.visits))
              /\ gpb_pktIO.packetState = states[Len(obs.visits)]

C18_Witness ==
    /\ WholeDone /\ env.packets = 2
    /\ obs.prev.cmd = GBP_COMMAND_DATA /\ obs.prev.len = 2
    /\ cur = DataEndPacket /\ obs.visits = FourStates

\* the number of bits of a transfer in the mode of the shifter
ActiveWidth(sio) ==
    CASE sio.mode = GPB_SIO_MODE_8BITS -> 8
      [] sio.mode = GPB_SIO_MODE_16BITS_BIG_ENDIAN -> 16
      [] sio.mode = GPB_SIO_MODE_16BITS_LITTLE_ENDIAN -> 16
      [] OTHER -> 0

SingleBit(mask, width) == \E k \in 0..(width - 1) : mask = Pow2(k)

\* C19: between any two calls of the edge handler, and after any reset or
\* tick, either the engine is unsynchronised with bitMaskMap = 0, or it is
\* synchronised with bitMaskMap a single set bit inside the width of the
\* transfer; synchronised with bitMaskMap = 0 is never seen between edges.
C19_MaskInvariant ==
    \/ ~gpb_sio.syncronised /\ gpb_sio.bitMaskMap = 0
    \/ gpb_sio.syncronised /\ SingleBit(gpb_sio.bitMaskMap, ActiveWidth(gpb_sio))

C19_Witness ==
    /\ gpb_sio.syncronised /\ gpb_sio.mode = GPB_SIO_MODE_8BITS
    /\ gpb_pktIO.packetState = GBP_PKT10_PARSE_DATA_PAYLOAD
    /\ gpb_sio.bitMaskMap = 1 /\ GBP_SCLK
    /\ obs.lastOp = "tick" /\ ~obs.tickRet /\ obs.silence = 2500

\* the shifter without the output level it last computed
Shifter(sio) == [sio EXCEPT !.SINOutputPinState = FALSE]

\* C20: fed the same bit stream, the dual-edge handler and the handler for
\* rising edges only decode the same thing after every edge: the same parse
\* state, command, length, payload, checksum, status, counters and flags and
\* the same shifter; and the output level on the line at every rising edge
\* is the same in both.
C20_SameAsRisingOnly ==
    env.twin =>
        /\ obs.rising.pkt = gpb_pktIO
        /\ Shifter(obs.rising.sio) = Shifter(gpb_sio)
        /\ obs.sameLine

C20_Witness ==
    /\ env.twin /\ env.noise = 1 /\ PacketDone /\ wire = <<>>
    /\ cur = PrintPacket
    /\ obs.rising.pkt.printInstructionBuffer = cur.payload
    /\ obs.rising.pkt.printInstructionReceived
    /\ obs.lastTx = GBP_DEVICE_ID * 256 /\ obs.sameLine

\* the payload bytes a packet is to have on the wire
EffectiveLength(p) ==
    CASE p.cmd = GBP_COMMAND_DATA -> p.len
      [] p.cmd = GBP_COMMAND_PRINT -> Min(p.len, PRINT_SIZE_LIMIT)
      [] OTHER -> 0

\* C21: for every packet the number of 8-bit payload transfers between the
\* length word and the checksum word is the effective length of the packet
\* (the length field for DATA, min(length, 4) for PRINT, 0 otherwise); a
\* PRINT packet of length 0 takes no payload transfer and leaves
\* printInstructionBuffer as it was.
C21_PayloadTransfers ==
    (obs.traced /\ obs.aligned /\ gpb_sio.syncronised) =>
        /\ obs.payloads <= EffectiveLength(cur)
        /\ gpb_pktIO.packetState \in {GBP_PKT10_PARSE_CHECKSUM, GBP_PKT10_PARSE_DUMMY} =>
              obs.payloads = EffectiveLength(cur)
        /\ (cur.cmd = GBP_COMMAND_PRINT /\ cur.len = 0) =>
              gpb_pktIO.printInstructionBuffer = obs.before.printInstructionBuffer

\* C22: a BREAK packet causes one reset: once the timeout handler has
\* returned true for it, a further call returns false and leaves the ring,
\* the status bits and the synchroniser as they were, unless another BREAK
\* packet has completed or the call brings the timeout counter to zero.
C22_BreakResetsOnce ==
    (obs.lastOp = "tick" /\ obs.again) => (~obs.tickRet /\ obs.tickKept)

\* C23: the timeout resets only a packet in flight: a call of the timeout
\* handler that finds the engine scanning after a packet that completed its
\* Dummy phase does not reset, so the bytes of completed DATA packets stay
\* in the ring until they are dequeued.
C23_NoIdleTimeout ==
    (obs.lastOp = "tick" /\ obs.idle) => (~obs.tickRet /\ obs.tickKept)

\* C24: when the edge handler pre-empts gpb_serial_io_reset, called from the
\* timeout handler, between two of its statements, the state after both
\* have finished satisfies: syncronised implies bitMaskMap > 0.
C24_ResetRace ==
    (env.resets > 0 /\ env.pc = 0) =>
        (gpb_sio.syncronised => gpb_sio.bitMaskMap > 0)

=============================================================================
